---- MODULE Spec2Model ----
(***************************************************************************)
(* Model of pkg/workloads/cortex/lib/model/validation.py: the validation   *)
(* of a model's S3 paths against the placeholder template of its           *)
(* predictor type.                                                         *)
(*                                                                         *)
(* A path (an S3 key, a prefix, a relative path) is the sequence of its    *)
(* "/"-separated components; a path string "a/b" is <<"a", "b">>.          *)
(* A pattern (a template dict or None) is named by an identifier, and      *)
(* PatternItems gives its (key, sub-pattern) items in insertion order.     *)
(***************************************************************************)
EXTENDS Integers, Sequences, FiniteSets, TLC

VARIABLES predictor_type, commonprefix, s3_paths, pattern, pc, stack, result,
          raised_in

vars ==
    <<predictor_type, commonprefix, s3_paths, pattern, pc, stack, result, raised_in>>

(***************************************************************************)
(* Bounds and inputs                                                       *)
(***************************************************************************)
MaxPaths == 3

PythonPredictorType == "PythonPredictor"
TensorFlowPredictorType == "TensorFlowPredictor"
ONNXPredictorType == "ONNXPredictor"

PredictorTypes == {PythonPredictorType, TensorFlowPredictorType, ONNXPredictorType}

\* The S3 keys the path lists are drawn from: files and directories under
\* the prefix models/a, the prefix itself, its parent and a sibling's file.
Keys ==
    { <<"models", "a", "1", "model.pkl">>,
      <<"models", "a", "1">>,
      <<"models", "a", "2">>,
      <<"models", "a", "0model.onnx", "123">>,
      <<"models", "a", "0model.onnx", "2">>,
      <<"models", "a", "x">>,
      <<"models", "a">>,
      <<"models">>,
      <<"models", "b", "1">> }

\* The prefixes validation starts from: a model's directory and its parent.
Prefixes == { <<"models", "a">>, <<"models">> }

PathLists == UNION { [1..n -> Keys] : n \in 0..MaxPaths }

\* The characters of each path component that occurs in the inputs.
Spelling(name) ==
    CASE name = "1" -> <<"1">>
      [] name = "2" -> <<"2">>
      [] name = "123" -> <<"1", "2", "3">>
      [] name = "x" -> <<"x">>
      [] name = "a" -> <<"a">>
      [] name = "b" -> <<"b">>
      [] name = "." -> <<".">>
      [] name = ".." -> <<".", ".">>
      [] name = "models" -> <<"m", "o", "d", "e", "l", "s">>
      [] name = "model.pkl" -> <<"m", "o", "d", "e", "l", ".", "p", "k", "l">>
      [] name = "0model.onnx" ->
             <<"0", "m", "o", "d", "e", "l", ".", "o", "n", "n", "x">>

\* The characters str.isnumeric accepts, among those of the inputs.
NumericChars == {"0", "1", "2", "3", "4", "5", "6", "7", "8", "9"}

isnumeric(obj) ==
    /\ Len(Spelling(obj)) > 0
    /\ \A i \in 1..Len(Spelling(obj)) : Spelling(obj)[i] \in NumericChars

(***************************************************************************)
(* Placeholders (lines 33-121)                                             *)
(***************************************************************************)
\* The priority of a PlaceholderGroup built without one (kwargs.get gives None).
NoPriority == -1

TemplatePlaceholder(placeholder, priority) ==
    [placeholder |-> placeholder, value |-> "", priority |-> priority]

GenericPlaceholder(value) ==
    [placeholder |-> "<generic>", value |-> value, priority |-> 0]

PlaceholderGroup ==
    [placeholder |-> "<group>", value |-> "", priority |-> NoPriority]

IntegerPlaceholder == TemplatePlaceholder("<integer>", 1)
SinglePlaceholder == TemplatePlaceholder("<single>", 2)
ExclAlternativePlaceholder == TemplatePlaceholder("<exclusive>", 3)
AnyPlaceholder == TemplatePlaceholder("<any>", 4)

\* GenericPlaceholder.__eq__: two generic placeholders are equal whatever
\* their values.
GenericEq(key, other) ==
    /\ key.placeholder = "<generic>"
    /\ other.placeholder = "<generic>"

\* The type property: the placeholder stripped of "<" and ">".
type(key) ==
    CASE key.placeholder = "<generic>" -> "generic"
      [] key.placeholder = "<integer>" -> "integer"
      [] key.placeholder = "<single>" -> "single"
      [] key.placeholder = "<exclusive>" -> "exclusive"
      [] key.placeholder = "<any>" -> "any"
      [] OTHER -> "group"

(***************************************************************************)
(* Templates (lines 150-185)                                               *)
(***************************************************************************)
None == "None"

Item(key, sub) == [key |-> key, sub |-> sub]

\* The items of a template dict, in insertion order.  "python" and
\* "python/0model.onnx" are model_template as the module leaves it (its
\* second assignment); "dir/python" is dir_models_pattern of it; the others
\* are one-level templates the matcher is applied to.
PatternItems(node) ==
    CASE node = "python" ->
             << Item(IntegerPlaceholder, None),
                Item(AnyPlaceholder, None),
                Item(GenericPlaceholder("0model.onnx"), "python/0model.onnx") >>
      [] node = "python/0model.onnx" ->
             << Item(GenericPlaceholder("123"), None),
                Item(IntegerPlaceholder, None) >>
      [] node = "dir/python" ->
             << Item(SinglePlaceholder, "python") >>
      [] node = "any" ->
             << Item(AnyPlaceholder, None) >>
      [] node = "integer" ->
             << Item(IntegerPlaceholder, None) >>
      [] node = "any+single+integer" ->
             << Item(AnyPlaceholder, None),
                Item(SinglePlaceholder, None),
                Item(IntegerPlaceholder, None) >>
      [] node = "mixed" ->
             << Item(AnyPlaceholder, None),
                Item(ExclAlternativePlaceholder, None),
                Item(IntegerPlaceholder, None),
                Item(GenericPlaceholder("2"), None) >>

\* The predictor types model_template has an entry for.
RegisteredTypes == {PythonPredictorType}

\* What a lookup gives in place of a pattern when model_template has no
\* entry for the predictor type: the lookup raises KeyError.
RaisesKeyError == "raises KeyError"

\* model_template[predictor_type]
model_template(ptype) ==
    IF ptype \in RegisteredTypes THEN "python" ELSE RaisesKeyError

\* {SinglePlaceholder: model_template[predictor_type]}
dir_models_pattern(ptype) ==
    IF model_template(ptype) = RaisesKeyError THEN RaisesKeyError
    ELSE "dir/python"

single_model_pattern(ptype) == model_template(ptype)

\* The patterns the matcher is applied to in SpecEngine.
EnginePatterns ==
    { single_model_pattern(PythonPredictorType),
      dir_models_pattern(PythonPredictorType),
      "any", "integer", "any+single+integer", "mixed" }

(***************************************************************************)
(* Path utilities (os.path, lines 209-212, 260, 269-273)                   *)
(***************************************************************************)
NormStep(acc, c) ==
    IF c = "." THEN acc
    ELSE IF c = ".."
         THEN (IF acc = <<>> THEN acc ELSE SubSeq(acc, 1, Len(acc) - 1))
         ELSE Append(acc, c)

RECURSIVE NormFold(_, _)
NormFold(acc, parts) ==
    IF parts = <<>> THEN acc
    ELSE NormFold(NormStep(acc, Head(parts)), Tail(parts))

\* os.path.abspath with the working directory "/": the components of the
\* normalised absolute path.
abspath(path) == NormFold(<<>>, path)

RECURSIVE CommonLen(_, _)
CommonLen(a, b) ==
    IF a = <<>> \/ b = <<>> \/ Head(a) # Head(b) THEN 0
    ELSE 1 + CommonLen(Tail(a), Tail(b))

\* os.path.relpath(path, start); "." is <<".">>.
relpath(path, start) ==
    LET start_list == abspath(start)
        path_list == abspath(path)
        i == CommonLen(start_list, path_list)
        rel_list == [k \in 1..(Len(start_list) - i) |-> ".."]
                       \o SubSeq(path_list, i + 1, Len(path_list))
    IN  IF rel_list = <<>> THEN <<".">> ELSE rel_list

\* path.startswith("../")
StartsWithParentDir(path) == Len(path) >= 2 /\ path[1] = ".."

\* Lines 209-210: the relative paths kept at a level, in the order of s3_paths.
LevelPaths(paths, prefix) ==
    LET rel == [i \in 1..Len(paths) |-> relpath(paths[i], prefix)]
        Keep(p) == ~StartsWithParentDir(p)
    IN  SelectSeq(rel, Keep)

get_leftmost_part_of_path(path) == Head(path)

\* Line 212 and the set of line 213.
ObjectSet(paths) == { get_leftmost_part_of_path(paths[i]) : i \in 1..Len(paths) }

\* Line 213, list(set(objects)): the objects once each, in the order the
\* set iterates, which the strings' hashes decide.
ObjectLists(paths) ==
    { objs \in [1..Cardinality(ObjectSet(paths)) -> ObjectSet(paths)] :
        \A i, j \in 1..Len(objs) : i # j => objs[i] # objs[j] }

\* os.path.join(commonprefix, obj)
join(prefix, obj) == Append(prefix, obj)

(***************************************************************************)
(* Exceptions                                                              *)
(***************************************************************************)
\* The message of a CortexException: the pieces of the formatted string,
\* and the list an "unexpected path(s)" message ends with.
Message(parts, paths) == [parts |-> parts, paths |-> paths]

NoError == Message(<<>>, <<>>)

\* f"{predictor_type} predictor at '{commonprefix}'" (label "predictor at")
\* and f"{predictor_type} predictor model at '{commonprefix}'".
Context(label, prefix) ==
    [predictor_type |-> predictor_type, label |-> label, commonprefix |-> prefix]

\* CortexException(context, message)
CortexException(context, message) ==
    [status |-> "error", contexts |-> <<context>>, message |-> message]

Running == [status |-> "running", contexts |-> <<>>, message |-> NoError]
Returned == [status |-> "ok", contexts |-> <<>>, message |-> NoError]
KeyError == [status |-> "KeyError", contexts |-> <<>>, message |-> NoError]
TypeError == [status |-> "TypeError", contexts |-> <<>>, message |-> NoError]

(***************************************************************************)
(* The placeholder validators (lines 276-336).  Each gives the visited     *)
(* list it leaves and the message of the exception it raises (NoError when *)
(* it returns).  key_id counts from 0, as in the source.                   *)
(***************************************************************************)
\* visited_objects starts as len(objects) * [False]; a claimed object holds
\* the key_id of its rule, and 0 is not False.
Unvisited == -1

Outcome(visited, error) == [visited |-> visited, error |-> error]

\* validate_integer_placeholder without its "too many" check.
validate_integer_unbounded(placeholders, key_id, objects, visited) ==
    LET claimed == { idx \in 1..Len(objects) :
                       isnumeric(objects[idx]) /\ visited[idx] = Unvisited }
        after == [idx \in 1..Len(visited) |->
                    IF idx \in claimed THEN key_id ELSE visited[idx]]
    IN  IF claimed = {}
        THEN Outcome(after, Message(<<IntegerPlaceholder.placeholder,
                                      " not found in path">>, <<>>))
        ELSE Outcome(after, NoError)

validate_integer_placeholder(placeholders, key_id, objects, visited) ==
    LET claimed == { idx \in 1..Len(objects) :
                       isnumeric(objects[idx]) /\ visited[idx] = Unvisited }
        appearances == Cardinality(claimed)
        after == [idx \in 1..Len(visited) |->
                    IF idx \in claimed THEN key_id ELSE visited[idx]]
    IN  IF appearances > 1 /\ Len(placeholders) = 1
        THEN Outcome(after, Message(<<"too many ", IntegerPlaceholder.placeholder,
                                      " appearances in path">>, <<>>))
        ELSE IF appearances = 0
        THEN Outcome(after, Message(<<IntegerPlaceholder.placeholder,
                                      " not found in path">>, <<>>))
        ELSE Outcome(after, NoError)

validate_any_placeholder(placeholders, key_id, objects, visited) ==
    Outcome([idx \in 1..Len(visited) |->
                IF visited[idx] = Unvisited THEN key_id ELSE visited[idx]],
            NoError)

\* validate_single_placeholder counting the objects but not the rules.
validate_single_among_rules(placeholders, key_id, objects, visited) ==
    IF Len(objects) > 1
    THEN Outcome(visited, Message(<<"only a single ", SinglePlaceholder.placeholder,
                                    " is allowed per directory">>, <<>>))
    ELSE IF Len(visited) > 0 /\ visited[1] = Unvisited
    THEN Outcome([visited EXCEPT ![1] = key_id], NoError)
    ELSE Outcome(visited, NoError)

validate_single_placeholder(placeholders, key_id, objects, visited) ==
    IF Len(placeholders) > 1 \/ Len(objects) > 1
    THEN Outcome(visited, Message(<<"only a single ", SinglePlaceholder.placeholder,
                                    " is allowed per directory">>, <<>>))
    ELSE IF Len(visited) > 0 /\ visited[1] = Unvisited
    THEN Outcome([visited EXCEPT ![1] = key_id], NoError)
    ELSE Outcome(visited, NoError)

\* validate_generic_placeholder with found set whether or not a name matched.
validate_generic_always_found(placeholders, key_id, objects, visited, generical) ==
    LET matches == { idx \in 1..Len(objects) : objects[idx] = generical.value }
    IN  IF matches = {}
        THEN Outcome(visited, NoError)
        ELSE LET idx == CHOOSE m \in matches : \A n \in matches : m <= n
             IN  IF visited[idx] = Unvisited
                 THEN Outcome([visited EXCEPT ![idx] = key_id], NoError)
                 ELSE Outcome(visited, NoError)

validate_generic_placeholder(placeholders, key_id, objects, visited, generical) ==
    LET matches == { idx \in 1..Len(objects) : objects[idx] = generical.value }
    IN  IF matches = {}
        THEN Outcome(visited, Message(<<type(generical), " placeholder for ",
                                        generical.value, " wasn't found">>, <<>>))
        ELSE LET idx == CHOOSE m \in matches : \A n \in matches : m <= n
             IN  IF visited[idx] = Unvisited
                 THEN Outcome([visited EXCEPT ![idx] = key_id], NoError)
                 ELSE Outcome(visited, NoError)

validate_group_placeholder(placeholders, key_id, objects, visited) ==
    Outcome(visited, NoError)

validate_exclusive_placeholder(placeholders, key_id, objects, visited) ==
    Outcome(visited, NoError)

\* Lines 229-242: the validator the key's kind selects.
ValidateKey(keys, key_id, objects, visited) ==
    LET key == keys[key_id + 1]
    IN  IF key = IntegerPlaceholder
        THEN validate_integer_placeholder(keys, key_id, objects, visited)
        ELSE IF key = AnyPlaceholder
        THEN validate_any_placeholder(keys, key_id, objects, visited)
        ELSE IF key = SinglePlaceholder
        THEN validate_single_placeholder(keys, key_id, objects, visited)
        ELSE IF GenericEq(key, GenericPlaceholder(""))
        THEN validate_generic_placeholder(keys, key_id, objects, visited, key)
        ELSE IF key = PlaceholderGroup
        THEN validate_group_placeholder(keys, key_id, objects, visited)
        ELSE IF key = ExclAlternativePlaceholder
        THEN validate_exclusive_placeholder(keys, key_id, objects, visited)
        ELSE Outcome(visited,
                     Message(<<"found a non-placeholder object in model template">>,
                             <<>>))

(***************************************************************************)
(* One level of _validate_s3_model_paths (lines 208-263)                   *)
(***************************************************************************)
\* list(pattern.keys())
PatternKeys(node) ==
    [i \in 1..Len(PatternItems(node)) |-> PatternItems(node)[i].key]

\* pattern[key]
SubPattern(node, key) ==
    LET items == PatternItems(node)
        i == CHOOSE j \in 1..Len(items) : items[j].key = key
    IN  items[i].sub

\* One step of the stable sort: key goes after the keys of priority at
\* most its own.
InsertByPriority(sorted, key) ==
    LET before == SelectSeq(sorted, LAMBDA k : k.priority <= key.priority)
        after == SelectSeq(sorted, LAMBDA k : k.priority > key.priority)
    IN  before \o <<key>> \o after

RECURSIVE SortFrom(_, _)
SortFrom(sorted, keys) ==
    IF keys = <<>> THEN sorted
    ELSE SortFrom(InsertByPriority(sorted, Head(keys)), Tail(keys))

\* The keys left in the order of the template.
KeepOrder(keys) == keys

\* keys.sort(key=operator.attrgetter("priority"))
SortByPriority(keys) == SortFrom(<<>>, keys)

\* The sort compares a priority of None with another priority.
SortRaises(keys) ==
    Len(keys) > 1 /\ \E i \in 1..Len(keys) : keys[i].priority = NoPriority

\* Lines 246-249: for each unvisited object, the path at the object's index.
UnvisitedPaths(paths, visited) ==
    LET idxs == SelectSeq([i \in 1..Len(visited) |-> i],
                          LAMBDA i : visited[i] = Unvisited)
    IN  [n \in 1..Len(idxs) |-> paths[idxs[n]]]

\* A call of _validate_s3_model_paths at its first line.
Frame(node, prefix) ==
    [pattern |-> node, commonprefix |-> prefix, paths |-> <<>>,
     objects |-> <<>>, visited |-> <<>>, keys |-> <<>>,
     key_id |-> 0, obj_id |-> 0, pc |-> "enter"]

NotRaised == [depth |-> 0, frame |-> Frame(None, <<>>)]

Top == stack[Len(stack)]

SetTop(frame) == [stack EXCEPT ![Len(stack)] = frame]

\* The exception as the caller of validate_s3_model_paths receives it: the
\* recursive call of line 263 is outside the try block of lines 227-244, so
\* the callers' frames, outermost first in callers, add nothing.
Propagate(callers, exception) == exception

\* An exception leaves the frame and every caller's.
Raise(frame, exception) ==
    /\ result' = Propagate(SubSeq(stack, 1, Len(stack) - 1), exception)
    /\ raised_in' = [depth |-> Len(stack), frame |-> frame]
    /\ stack' = <<>>
    /\ pc' = "done"

\* The frame returns to its caller, or validate_s3_model_paths returns.
ReturnFromTop ==
    /\ stack' = SubSeq(stack, 1, Len(stack) - 1)
    /\ IF Len(stack) = 1
       THEN pc' = "done" /\ result' = Returned
       ELSE UNCHANGED <<pc, result>>
    /\ UNCHANGED raised_in

(***************************************************************************)
(* Actions                                                                 *)
(***************************************************************************)
Inputs == <<predictor_type, commonprefix, s3_paths>>

\* The name pattern of line 265 before its assignment.
Unbound == "unbound"

\* A guard that lets every list through.
NeverEmpty(paths) == FALSE

\* Line 203: len(s3_paths) == 0
IsEmpty(paths) == Len(paths) = 0

\* Lines 203-206: validate_s3_model_paths refuses an empty list.
CheckEmpty ==
    /\ pc = "validate"
    /\ IF IsEmpty(s3_paths)
       THEN /\ result' = CortexException(Context("predictor at", commonprefix),
                                         Message(<<"model path can't be empty">>, <<>>))
            /\ pc' = "done"
       ELSE /\ pc' = "resolve"
            /\ UNCHANGED result
    /\ UNCHANGED <<Inputs, pattern, stack, raised_in>>

\* Lines 265-266: the template of the predictor type, and the first call.
ResolvePattern ==
    /\ pc = "resolve"
    /\ IF single_model_pattern(predictor_type) # RaisesKeyError
       THEN /\ pattern' = single_model_pattern(predictor_type)
            /\ stack' = <<Frame(pattern', commonprefix)>>
            /\ pc' = "engine"
            /\ UNCHANGED result
       ELSE /\ result' = KeyError
            /\ pc' = "done"
            /\ UNCHANGED <<pattern, stack>>
    /\ UNCHANGED <<Inputs, raised_in>>

\* Lines 209-225: the level's paths, objects and visited list; a None
\* pattern accepts only the prefix itself; otherwise the keys are sorted.
EnterLevel ==
    /\ pc = "engine"
    /\ Top.pc = "enter"
    /\ LET paths == LevelPaths(s3_paths, Top.commonprefix)
       IN  \E objects \in ObjectLists(paths) :
             LET visited == [i \in 1..Len(objects) |-> Unvisited]
                 entered == [Top EXCEPT !.paths = paths, !.objects = objects,
                                        !.visited = visited]
             IN  IF Top.pattern = None
                 THEN IF Len(objects) = 1 /\ objects[1] = "."
                      THEN ReturnFromTop
                      ELSE Raise(entered,
                                 CortexException(
                                     Context("predictor at", Top.commonprefix),
                                     Message(<<"template doesn't specify a substructure for the given path">>,
                                             <<>>)))
                 ELSE IF SortRaises(PatternKeys(Top.pattern))
                 THEN /\ result' = TypeError
                      /\ raised_in' = [depth |-> Len(stack), frame |-> entered]
                      /\ stack' = <<>>
                      /\ pc' = "done"
                 ELSE /\ stack' = SetTop([entered EXCEPT
                                            !.keys = SortByPriority(PatternKeys(Top.pattern)),
                                            !.pc = "rules"])
                      /\ UNCHANGED <<pc, result, raised_in>>
    /\ UNCHANGED <<Inputs, pattern>>

\* Lines 228-244: one iteration of the loop over the sorted keys; the
\* validator's exception is raised again with the level's context.
RuleStep ==
    /\ pc = "engine"
    /\ Top.pc = "rules"
    /\ Top.key_id < Len(Top.keys)
    /\ LET out == ValidateKey(Top.keys, Top.key_id, Top.objects, Top.visited)
           after == [Top EXCEPT !.visited = out.visited]
       IN  IF out.error # NoError
           THEN Raise(after,
                      CortexException(Context("predictor at", Top.commonprefix),
                                      out.error))
           ELSE /\ stack' = SetTop([after EXCEPT !.key_id = Top.key_id + 1])
                /\ UNCHANGED <<pc, result, raised_in>>
    /\ UNCHANGED <<Inputs, pattern>>

\* Lines 246-254: an unvisited object after the last key is an error.
CheckUnvisited ==
    /\ pc = "engine"
    /\ Top.pc = "rules"
    /\ Top.key_id = Len(Top.keys)
    /\ LET unvisited_paths == UnvisitedPaths(Top.paths, Top.visited)
       IN  IF Len(unvisited_paths) > 0
           THEN Raise(Top,
                      CortexException(
                          Context("predictor model at", Top.commonprefix),
                          Message(<<"unexpected path(s) for ">>, unvisited_paths)))
           ELSE /\ stack' = SetTop([Top EXCEPT !.pc = "recurse"])
                /\ UNCHANGED <<pc, result, raised_in>>
    /\ UNCHANGED <<Inputs, pattern>>

\* Lines 256-263: one iteration of the loop over the objects, up to the
\* recursive call.
Recurse ==
    /\ pc = "engine"
    /\ Top.pc = "recurse"
    /\ Top.obj_id < Len(Top.objects)
    /\ LET obj == Top.objects[Top.obj_id + 1]
           key == Top.keys[Top.visited[Top.obj_id + 1] + 1]
           new_commonprefix == join(Top.commonprefix, obj)
           sub_pattern == SubPattern(Top.pattern, key)
       IN  stack' = Append(SetTop([Top EXCEPT !.obj_id = Top.obj_id + 1]),
                           Frame(sub_pattern, new_commonprefix))
    /\ UNCHANGED <<Inputs, pattern, pc, result, raised_in>>

\* The loop of line 256 is over: the call returns.
Return ==
    /\ pc = "engine"
    /\ Top.pc = "recurse"
    /\ Top.obj_id = Len(Top.objects)
    /\ ReturnFromTop
    /\ UNCHANGED <<Inputs, pattern>>

(***************************************************************************)
(* Specifications                                                          *)
(***************************************************************************)
\* validate_s3_model_paths, called with any predictor type and path list.
Init ==
    /\ predictor_type \in PredictorTypes
    /\ commonprefix \in Prefixes
    /\ s3_paths \in PathLists
    /\ pattern = Unbound
    /\ pc = "validate"
    /\ stack = <<>>
    /\ result = Running
    /\ raised_in = NotRaised

Next ==
    \/ CheckEmpty
    \/ ResolvePattern
    \/ EnterLevel
    \/ RuleStep
    \/ CheckUnvisited
    \/ Recurse
    \/ Return

Spec == Init /\ [][Next]_vars

\* _validate_s3_model_paths, called with a pattern of EnginePatterns and a
\* path list that passed line 203.
InitEngine ==
    /\ predictor_type = PythonPredictorType
    /\ commonprefix \in Prefixes
    /\ s3_paths \in PathLists \ {<<>>}
    /\ pattern \in EnginePatterns
    /\ pc = "engine"
    /\ stack = <<Frame(pattern, commonprefix)>>
    /\ result = Running
    /\ raised_in = NotRaised

NextEngine ==
    \/ EnterLevel
    \/ RuleStep
    \/ CheckUnvisited
    \/ Recurse
    \/ Return

SpecEngine == InitEngine /\ [][NextEngine]_vars

(***************************************************************************)
(* Properties                                                              *)
(***************************************************************************)
\* The frames of the calls in progress, and the frame an exception left.
Frames == { stack[d] : d \in 1..Len(stack) }

Raised == result.status = "error" /\ raised_in.depth >= 1

\* The prefix of the call at depth d among the callers of the call with
\* prefix `prefix` at depth `depth`: each call extends its caller's prefix
\* by one object.
PrefixAtDepth(prefix, depth, d) == SubSeq(prefix, 1, Len(prefix) - (depth - d))

\* path is the prefix or lies below it.
IsUnder(path, prefix) ==
    /\ Len(abspath(path)) >= Len(abspath(prefix))
    /\ SubSeq(abspath(path), 1, Len(abspath(prefix))) = abspath(prefix)

\* Every input path lies strictly below the prefix validation starts from.
InputsBelowPrefix ==
    \A j \in 1..Len(s3_paths) :
        /\ IsUnder(s3_paths[j], commonprefix)
        /\ abspath(s3_paths[j]) # abspath(commonprefix)

AllDigits(name) ==
    /\ Spelling(name) # <<>>
    /\ \A i \in 1..Len(Spelling(name)) :
          Spelling(name)[i] \in {"0", "1", "2", "3", "4", "5", "6", "7", "8", "9"}

\* C1: an error raised at a nested level reaches the caller of
\* validate_s3_model_paths carrying the context of every level from the
\* root prefix down to the failing level.
C1_ErrorCarriesEveryLevelContext ==
    (Raised /\ raised_in.depth >= 2) =>
        \A d \in 1..raised_in.depth :
            \E i \in 1..Len(result.contexts) :
                /\ result.contexts[i].predictor_type = predictor_type
                /\ result.contexts[i].commonprefix =
                      PrefixAtDepth(raised_in.frame.commonprefix, raised_in.depth, d)

\* C2: at every level, each object comes from an input path located under
\* the level's prefix, and so does each path an error of the level lists.
C2_OnlyPathsUnderPrefixContribute ==
    /\ \A f \in Frames :
          \A i \in 1..Len(f.objects) :
              \E j \in 1..Len(s3_paths) :
                  /\ IsUnder(s3_paths[j], f.commonprefix)
                  /\ get_leftmost_part_of_path(relpath(s3_paths[j], f.commonprefix))
                        = f.objects[i]
    /\ Raised =>
          \A k \in 1..Len(result.message.paths) :
              \E j \in 1..Len(s3_paths) :
                  /\ IsUnder(s3_paths[j], raised_in.frame.commonprefix)
                  /\ relpath(s3_paths[j], raised_in.frame.commonprefix)
                        = result.message.paths[k]

\* C8: PythonPredictor with prefix models/a and the one path
\* models/a/1/model.pkl is accepted.
C8_PythonSinglePathSucceeds ==
    ( /\ predictor_type = PythonPredictorType
      /\ commonprefix = <<"models", "a">>
      /\ s3_paths = << <<"models", "a", "1", "model.pkl">> >>
      /\ pc = "done" )
    => result.status = "ok"

\* C9: for every predictor type and prefix, an empty path list fails at once
\* with "model path can't be empty": no template is resolved and no level is
\* entered.
C9_EmptyListFailsImmediately ==
    s3_paths = <<>> =>
        /\ pattern = Unbound
        /\ stack = <<>>
        /\ pc \in {"validate", "done"}
        /\ pc = "validate" => result = Running
        /\ pc = "done" =>
              /\ result.status = "error"
              /\ result.contexts = <<Context("predictor at", commonprefix)>>
              /\ result.message = Message(<<"model path can't be empty">>, <<>>)

C9_EmptyListRefused ==
    /\ s3_paths = <<>>
    /\ predictor_type = ONNXPredictorType
    /\ pc = "done"
    /\ result.status = "error"

\* The level of a frame has run every rule and passed the check of lines
\* 246-254.
Matched(f) == f.pc = "recurse"

\* The exception left a level with these keys while its rules were being
\* evaluated (lines 228-244).
RaisedByRule == Raised /\ raised_in.frame.pc = "rules"
                       /\ raised_in.frame.key_id < Len(raised_in.frame.keys)

\* The keys of the frame's pattern, in insertion order.
LevelKeys(f) == IF f.pattern = None THEN <<>> ELSE PatternKeys(f.pattern)

HasKey(f, key) == \E k \in 1..Len(f.keys) : f.keys[k] = key

\* C3: the "unexpected path(s)" error of a level lists exactly the level's
\* relative paths whose first component is an unclaimed object.
C3_UnexpectedPathsAreThoseOfUnclaimedObjects ==
    (InputsBelowPrefix /\ Raised
        /\ result.message.parts = <<"unexpected path(s) for ">>) =>
        LET f == raised_in.frame
            unclaimed == { f.objects[i] : i \in { j \in 1..Len(f.objects) :
                                                    f.visited[j] = Unvisited } }
        IN  /\ unclaimed # {}
            /\ { result.message.paths[k] : k \in 1..Len(result.message.paths) }
                  = { f.paths[k] : k \in { j \in 1..Len(f.paths) :
                          get_leftmost_part_of_path(f.paths[j]) \in unclaimed } }

OnlyASingle ==
    Message(<<"only a single ", "<single>", " is allowed per directory">>, <<>>)

\* C4, as claimed: a level that contains a Single rule fails with "only a
\* single <single> is allowed per directory" unless it has exactly one rule
\* and exactly one object.
C4_SingleLevelFailsUnlessOneRuleOneObject ==
    InputsBelowPrefix =>
    /\ \A f \in Frames :
          (HasKey(f, SinglePlaceholder) /\ Matched(f)) =>
              Len(f.keys) = 1 /\ Len(f.objects) = 1
    /\ (Raised /\ HasKey(raised_in.frame, SinglePlaceholder)
               /\ ~(Len(raised_in.frame.keys) = 1 /\ Len(raised_in.frame.objects) = 1))
          => result.message = OnlyASingle

\* C4, amended: when the Single rule of a level is reached (no rule of lower
\* priority has failed), it fails with "only a single <single> is allowed
\* per directory" iff the level has more than one rule or more than one
\* object.  With one rule and one object Single claims that object and
\* matching recurses into Single's subtree with the prefix extended by the
\* object's name; with one rule and no object it succeeds and claims nothing.
C4_SingleStep ==
    /\ (RaisedByRule /\ raised_in.frame.keys[raised_in.frame.key_id + 1] = SinglePlaceholder)
          => /\ Len(raised_in.frame.keys) > 1 \/ Len(raised_in.frame.objects) > 1
             /\ result.message = OnlyASingle
             /\ result.contexts =
                   <<Context("predictor at", raised_in.frame.commonprefix)>>
    /\ \A f \in Frames :
          \A k \in 1..Len(f.keys) :
              (f.keys[k] = SinglePlaceholder /\ f.key_id >= k) =>
                  /\ Len(f.keys) = 1
                  /\ Len(f.objects) <= 1
                  /\ \A i \in 1..Len(f.objects) : f.visited[i] = k - 1
    /\ \A d \in 1..(Len(stack) - 1) :
          stack[d].keys = <<SinglePlaceholder>> =>
              /\ Len(stack[d].objects) = 1
              /\ stack[d + 1].commonprefix =
                    stack[d].commonprefix \o <<stack[d].objects[1]>>
              /\ stack[d + 1].pattern = SubPattern(stack[d].pattern, SinglePlaceholder)

C4_SingleRecursed ==
    /\ Len(stack) >= 2
    /\ stack[1].keys = <<SinglePlaceholder>>
    /\ stack[1].visited = <<0>>
    /\ stack[2].commonprefix = <<"models", "a", "1">>

\* C5: a template whose only rule is Any accepts every non-empty set of
\* objects under the prefix, files and directories alike.
C5_AnyAloneAlwaysSucceeds ==
    ( /\ pattern = "any"
      /\ pc = "done"
      /\ InputsBelowPrefix )
    => result.status = "ok"

\* C6: a level whose only rule is Integer matches iff its object set is
\* exactly one all-digit object; it fails with "too many <integer>
\* appearances in path" when two or more all-digit objects are present and
\* with "<integer> not found in path" when none is.
C6_IntegerAlone ==
    LET OneDigitObject(f) == Len(f.objects) = 1 /\ AllDigits(f.objects[1])
        DigitObjects(f) == { i \in 1..Len(f.objects) : AllDigits(f.objects[i]) }
    IN  /\ \A f \in Frames :
              (LevelKeys(f) = <<IntegerPlaceholder>> /\ f.pc # "enter") =>
                  /\ Matched(f) => OneDigitObject(f)
                  /\ OneDigitObject(f) => f.pc \in {"rules", "recurse"}
        /\ (Raised /\ LevelKeys(raised_in.frame) = <<IntegerPlaceholder>>) =>
              LET f == raised_in.frame
              IN  /\ ~OneDigitObject(f)
                  /\ Cardinality(DigitObjects(f)) >= 2 =>
                        result.message = Message(<<"too many ", "<integer>",
                                                   " appearances in path">>, <<>>)
                  /\ Cardinality(DigitObjects(f)) = 0 =>
                        result.message = Message(<<"<integer>", " not found in path">>,
                                                 <<>>)
                  /\ Cardinality(DigitObjects(f)) = 1 =>
                        result.message.parts = <<"unexpected path(s) for ">>

C6_IntegerAloneMatched ==
    \E f \in Frames :
        /\ f.pattern = "integer"
        /\ Matched(f)
        /\ f.objects = <<"2">>
        /\ f.visited = <<0>>

\* C7: the step of a Literal(name) rule succeeds iff some object of the
\* level is name; it then claims that object alone and leaves every other
\* object as it was; otherwise it fails with "generic placeholder for name
\* wasn't found".
C7_LiteralStep ==
    [][ ( /\ pc = "engine"
          /\ Top.pc = "rules"
          /\ Top.key_id < Len(Top.keys)
          /\ Top.keys[Top.key_id + 1].placeholder = "<generic>" )
        => LET f == Top
               name == f.keys[f.key_id + 1].value
           IN  IF \E i \in 1..Len(f.objects) : f.objects[i] = name
               THEN /\ result' = Running
                    /\ Len(stack') = Len(stack)
                    /\ stack'[Len(stack)].key_id = f.key_id + 1
                    /\ stack'[Len(stack)].objects = f.objects
                    /\ \A i \in 1..Len(f.objects) :
                          stack'[Len(stack)].visited[i] =
                              IF f.objects[i] = name THEN f.key_id ELSE f.visited[i]
               ELSE /\ result'.status = "error"
                    /\ result'.message =
                          Message(<<"generic", " placeholder for ", name,
                                    " wasn't found">>, <<>>)
      ]_vars

C7_LiteralClaimedOneOfThree ==
    \E f \in Frames :
        /\ f.pattern = "python"
        /\ f.key_id = 1
        /\ Len(f.objects) = 3
        /\ \E i \in 1..3 :
              /\ f.objects[i] = "0model.onnx"
              /\ f.visited[i] = 0
              /\ \A j \in 1..3 : j # i => f.visited[j] = Unvisited

\* The rule, counted from 0 in the level's sorted keys, that claims an
\* object once the first n keys have run: the first of them whose kind
\* takes the object, or none.
Takes(f, key, obj) ==
    CASE key.placeholder = "<generic>" -> obj = key.value
      [] key.placeholder = "<integer>" -> AllDigits(obj)
      [] key.placeholder = "<single>" -> Len(f.keys) = 1 /\ Len(f.objects) = 1
      [] key.placeholder = "<any>" -> TRUE
      [] OTHER -> FALSE

FirstTaker(f, obj, n) ==
    LET takers == { k \in 0..(n - 1) : Takes(f, f.keys[k + 1], obj) }
    IN  IF takers = {} THEN Unvisited
        ELSE CHOOSE k \in takers : \A m \in takers : k <= m

\* C10: within a level the rules run in ascending priority whatever their
\* order in the template, and each object is claimed by the first rule, in
\* that order, that takes it: a Literal before Integer for an all-digit
\* object of the Literal's name, Any only for what every other rule left.
\* The claiming rule of an object is therefore fixed once it is set.
C10_RulesClaimInPriorityOrder ==
    \A f \in Frames :
        f.pc \in {"rules", "recurse"} =>
            /\ Len(f.keys) = Len(LevelKeys(f))
            /\ \A k \in 1..Len(f.keys) :
                  \E m \in 1..Len(f.keys) : LevelKeys(f)[m] = f.keys[k]
            /\ \A k, m \in 1..Len(f.keys) :
                  k < m => f.keys[k].priority <= f.keys[m].priority
            /\ \A k \in 1..Len(f.keys) :
                  f.keys[k].priority =
                     CASE f.keys[k].placeholder = "<generic>" -> 0
                       [] f.keys[k].placeholder = "<integer>" -> 1
                       [] f.keys[k].placeholder = "<single>" -> 2
                       [] f.keys[k].placeholder = "<exclusive>" -> 3
                       [] f.keys[k].placeholder = "<any>" -> 4
            /\ \A i \in 1..Len(f.objects) :
                  f.visited[i] = FirstTaker(f, f.objects[i], f.key_id)

C10_LiteralIntegerAnyShareLevel ==
    \E f \in Frames :
        /\ f.pattern = "mixed"
        /\ Matched(f)
        /\ \E i, j, k \in 1..Len(f.objects) :
              /\ f.objects[i] = "2" /\ f.visited[i] = 0
              /\ f.objects[j] = "1" /\ f.visited[j] = 1
              /\ f.objects[k] = "x" /\ f.visited[k] = 3

====
